---- MODULE Spec2Model ----
(***************************************************************************)
(* A model of the three executables of lyra/cli_example:                   *)
(*   realtime_receiver.cc  UDP -> jitter buffer -> decoder -> PCM buffer   *)
(*                         -> PortAudio playback callback                  *)
(*   realtime_sender.cc    PortAudio capture callback -> encoder -> queue  *)
(*                         -> UDP                                          *)
(*   realtime_demo.cc      capture -> encode -> decode -> playback in one  *)
(*                         callback                                        *)
(* One behaviour is one run of one executable (prog).  Every thread is a   *)
(* program counter; one action is one step of a thread between two points  *)
(* where another thread can observe or change shared state (a mutex        *)
(* acquisition, a critical section, a blocking call).  The POSIX branch of  *)
(* the #ifdef _WIN32 blocks is the one modelled.  Argument parsing (argc,   *)
(* std::stoi) precedes everything modelled here.                            *)
(*                                                                         *)
(* g_finished and g_socket_handle are plain (non-atomic) globals that main  *)
(* writes while other threads read them.  Every loop that polls g_finished *)
(* has an opaque library call in its body (pthread_mutex_lock, recvfrom,   *)
(* nanosleep), which no build can move the load across, and each of those  *)
(* calls orders memory; so every iteration loads the variable afresh and a *)
(* read is modelled as returning the value last written.  The reads and    *)
(* writes are separate steps, so every order of them is explored.          *)
(***************************************************************************)
EXTENDS Integers, Sequences, FiniteSets, TLC

\* ------------------------------------------------------------------ sizes
\* kFramesPerBuffer is kSampleRate / 50 = 320 in the source; the model runs
\* the same loops over a shorter frame.
kFramesPerBuffer == 2
\* std::vector<uint8_t> buffer(256): the receive buffer, and so the largest
\* value recvfrom can return.
kRecvBufferSize == 256
\* The size of a Lyra packet at kBitrate = 3200 bps and 50 frames a second:
\* 3200 / 50 / 8 bytes.
kPacketBytes == 8
\* Datagram receive events (successful or not) in one run of the receiver.
MaxArrivals == 2
\* Playback callback invocations in one run of the receiver.
MaxPlaybacks == 2
\* Capture callback invocations in one run of the sender or the demo.
MaxCaptures == 2

\* What recvfrom returns for a datagram: -1 (an error), 0 (an empty datagram),
\* or the number of bytes stored, at most the buffer's size.
RecvResults == {-1, 0, kPacketBytes, kRecvBufferSize}

\* A std::vector<uint8_t>: its size, and a serial number standing for its
\* bytes (the bytes of the id-th datagram received, or of the id-th frame
\* encoded).  NoPacket is the empty vector.
NoPacket == [id |-> 0, len |-> 0]

\* std::vector<uint8_t> buffer(256): kRecvBufferSize bytes, none received.
FreshBuffer == [id |-> 0, len |-> kRecvBufferSize]

\* The value an output buffer position holds before the callback writes it.
Stale == -1

VARIABLES
  prog,            \* which executable runs: "receiver", "sender", "demo"
  main_pc,         \* main's position
  exit_code,       \* -1 while running, main's return value, 139 after a fault
  g_finished,      \* bool g_finished
  stream,          \* PaStream* stream: "none" (not yet assigned),
                   \* "garbage" (Pa_OpenStream failed: still uninitialised),
                   \* "open", "started", "stopped", "closed"
  \* ---- receiver
  g_socket_handle, \* int g_socket_handle: -1 or the descriptor
  sock,            \* the descriptor's socket: "none", "open", "bound", "closed"
  sock_shut,       \* shutdown(SHUT_RDWR) has been applied to the socket
  net_pc,          \* network_thread_func's position
  buffer,          \* network_thread_func's local buffer
  bytes_received,  \* its local bytes_received (0 before recvfrom returns)
  dec_pc,          \* decoder_thread_func's position
  encoded_packet,  \* decoder_thread_func's local encoded_packet
  decoded,         \* decoder_thread_func's local decoded.value()
  g_jitter_buffer, \* std::queue<std::vector<uint8_t>>
  g_jitter_mutex,  \* holder: "free", "net", "dec"
  g_pcm_buffer,    \* std::queue<int16_t>
  g_pcm_mutex,     \* holder: "free", "dec", "cb"
  pb_pc,           \* the playback audioCallback's position
  frameCount,      \* the callback's frameCount argument
  out,             \* the callback's output buffer
  \* ---- sender
  snd_pc,          \* the sender's network_thread_func's position
  snd_sock,        \* its local socket: "none", "open", "closed"
  packet_to_send,  \* its local packet_to_send
  g_encoded_packets_queue,
  g_queue_mutex,   \* holder: "free", "net", "cb"
  cap_pc,          \* the capture audioCallback's position
  encoded,         \* the callback's local encoded (NoPacket: nullopt)
  \* ---- history (not program state)
  n_arrivals,      \* datagram receive events so far
  n_playbacks,     \* playback callback invocations so far
  n_captures,      \* capture callback invocations so far
  pushed,          \* every packet pushed into the packet queue, in order
  popped,          \* every packet popped from the packet queue, in order
  pcm_pushed,      \* every sample pushed into g_pcm_buffer, in order
  pcm_popped,      \* every sample popped from g_pcm_buffer, in order
  frames_ok,       \* the packets the decoder turned into a frame, in order
  sent,            \* the packets handed to sendto, in order
  init_failed,     \* the initialisation steps that failed so far
  late_shutdown,   \* shutdown() was called on a descriptor already closed
  \* ---- what the audio driver sees of the callbacks
  cb_result,       \* what the last callback invocation returned: "none"
                   \* (no invocation has returned yet, or one is running),
                   \* "paContinue", "paAbort"
  requests,        \* the frameCount values the playback callback was given
  pcm_left         \* Len(g_pcm_buffer) when the last playback callback
                   \* returned (-1: none has)

shared == <<prog, main_pc, exit_code, g_finished, stream>>
rxvars == <<g_socket_handle, sock, sock_shut, net_pc, buffer,
            bytes_received, dec_pc,
            encoded_packet, decoded, g_jitter_buffer, g_jitter_mutex,
            g_pcm_buffer, g_pcm_mutex, pb_pc, frameCount, out>>
txvars == <<snd_pc, snd_sock, packet_to_send, g_encoded_packets_queue,
            g_queue_mutex, cap_pc, encoded>>
hist == <<n_arrivals, n_playbacks, n_captures, pushed, popped, pcm_pushed,
          pcm_popped, frames_ok, sent, init_failed, late_shutdown>>
obs == <<cb_result, requests, pcm_left>>
vars == <<shared, rxvars, txvars, hist, obs>>

\* The process is alive: main has neither returned nor faulted.
Alive == main_pc \notin {"exited", "crashed"}

Init ==
  /\ prog \in {"receiver", "sender", "demo"}
  /\ main_pc = "create"
  /\ exit_code = -1
  /\ g_finished = FALSE
  /\ stream = "none"
  /\ g_socket_handle = -1
  /\ sock = "none"
  /\ sock_shut = FALSE
  /\ net_pc = "idle"
  /\ buffer = NoPacket
  /\ bytes_received = 0
  /\ dec_pc = "idle"
  /\ encoded_packet = NoPacket
  /\ decoded = <<>>
  /\ g_jitter_buffer = <<>>
  /\ g_jitter_mutex = "free"
  /\ g_pcm_buffer = <<>>
  /\ g_pcm_mutex = "free"
  /\ pb_pc = "idle"
  /\ frameCount = 0
  /\ out = <<>>
  /\ snd_pc = "idle"
  /\ snd_sock = "none"
  /\ packet_to_send = NoPacket
  /\ g_encoded_packets_queue = <<>>
  /\ g_queue_mutex = "free"
  /\ cap_pc = "idle"
  /\ encoded = NoPacket
  /\ n_arrivals = 0
  /\ n_playbacks = 0
  /\ n_captures = 0
  /\ pushed = <<>>
  /\ popped = <<>>
  /\ pcm_pushed = <<>>
  /\ pcm_popped = <<>>
  /\ frames_ok = <<>>
  /\ sent = <<>>
  /\ init_failed = {}
  /\ late_shutdown = FALSE
  /\ cb_result = "none"
  /\ requests = {}
  /\ pcm_left = -1

\* ------------------------------------------------------- queue operations
\* std::queue::push
QPush(q, x) == Append(q, x)
\* std::queue::front
QFront(q) == Head(q)
\* std::queue::pop
QPop(q) == Tail(q)
\* std::queue::empty
QEmpty(q) == q = <<>>

\* std::vector::empty
VecEmpty(p) == p.len = 0

\* ------------------------------------------------------------- PortAudio
\* Pa_StartStream is the first call handed the uninitialised `stream` of a
\* failed Pa_OpenStream.  It validates the handle by reading through it
\* (an indeterminate pointer): the read faults, or it finds no stream there
\* and the call returns paBadStreamPtr.  Pa_StopStream and Pa_CloseStream
\* validate the same handle in the same way: where Pa_StartStream read it
\* without a fault, so do they.
PaOnGarbage == {"error", "fault"}

\* Pa_StartStream: a stream that is open starts or fails to.
StartOutcomes(st) == IF st = "garbage" THEN PaOnGarbage ELSE {"ok", "error"}
StartStream(st, o) == IF st = "open" /\ o = "ok" THEN "started" ELSE st

\* Pa_StopStream: an active stream is stopped (once its callback has
\* returned) unless the host API fails; a stream that is not active gives
\* paStreamIsStopped.
StopOutcomes(st) == IF st = "started" THEN {"ok", "error"} ELSE {"error"}
StopStream(st, o) == IF st = "started" /\ o = "ok" THEN "stopped" ELSE st

\* Pa_CloseStream: closes a stream that was opened (aborting it first when
\* it is still active, once its callback has returned).
CloseOutcomes(st) == IF st = "garbage" THEN {"error"} ELSE {"ok"}
CloseStream(st, o) ==
  IF st \in {"open", "started", "stopped"} /\ o = "ok" THEN "closed" ELSE st

\* Pa_Terminate closes every stream that is still open.
Terminate(st) == IF st \in {"open", "started", "stopped"} THEN "closed" ELSE st

\* The driver invokes the stream's callback while the stream is active; a
\* callback that returns anything but paContinue ends that.
DriverCalls == stream = "started" /\ cb_result # "paAbort"

\* main after a PortAudio call on `stream` with outcome o: a fault ends the
\* process (SIGSEGV, status 139), anything else goes on to `next`.
MainAfterPa(o, st, next) ==
  IF o = "fault"
  THEN /\ main_pc' = "crashed"
       /\ exit_code' = 139
       /\ stream' = stream
  ELSE /\ main_pc' = next
       /\ exit_code' = exit_code
       /\ stream' = st


\* ================================================================ receiver
\* ---------------------------------------------------- network_thread_func
\* g_socket_handle = socket(AF_INET, SOCK_DGRAM, 0); a negative result makes
\* the thread return.
RxNetSocket ==
  /\ Alive /\ net_pc = "socket"
  /\ \E ok \in BOOLEAN :
       IF ok
       THEN /\ g_socket_handle' = 3
            /\ sock' = "open"
            /\ net_pc' = "bind"
            /\ UNCHANGED init_failed
       ELSE /\ g_socket_handle' = -1
            /\ sock' = sock
            /\ net_pc' = "done"
            /\ init_failed' = init_failed \cup {"socket"}
  /\ UNCHANGED <<obs, shared, sock_shut, buffer, bytes_received, dec_pc,
                 encoded_packet, decoded, g_jitter_buffer, g_jitter_mutex,
                 g_pcm_buffer, g_pcm_mutex, pb_pc, frameCount, out, txvars,
                 n_arrivals, n_playbacks, n_captures, pushed, popped,
                 pcm_pushed, pcm_popped, frames_ok, sent, late_shutdown>>

\* bind(g_socket_handle, ...); a negative result makes the thread return,
\* the socket left open.
RxNetBind ==
  /\ Alive /\ net_pc = "bind"
  /\ \E ok \in BOOLEAN :
       IF ok
       THEN /\ sock' = "bound"
            /\ net_pc' = "loop"
            /\ UNCHANGED init_failed
       ELSE /\ sock' = sock
            /\ net_pc' = "done"
            /\ init_failed' = init_failed \cup {"bind"}
  /\ UNCHANGED <<obs, shared, g_socket_handle, sock_shut, buffer,
                 bytes_received, dec_pc, encoded_packet, decoded,
                 g_jitter_buffer, g_jitter_mutex, g_pcm_buffer, g_pcm_mutex,
                 pb_pc, frameCount, out, txvars, n_arrivals, n_playbacks,
                 n_captures, pushed, popped, pcm_pushed, pcm_popped,
                 frames_ok, sent, late_shutdown>>

\* while(!g_finished): enter the body with a fresh buffer(256) and block in
\* recvfrom, or leave the loop.
RxNetLoop ==
  /\ Alive /\ net_pc = "loop"
  /\ net_pc' = IF g_finished THEN "close" ELSE "recv"
  /\ buffer' = IF g_finished THEN buffer ELSE FreshBuffer
  /\ bytes_received' = 0
  /\ UNCHANGED <<obs, shared, g_socket_handle, sock, sock_shut, dec_pc,
                 encoded_packet, decoded, g_jitter_buffer, g_jitter_mutex,
                 g_pcm_buffer, g_pcm_mutex, pb_pc, frameCount, out, txvars,
                 hist>>

\* RecvPc with the test written bytes_received >= 0.
RecvPcNonNegative(r) == IF r >= 0 THEN "lock" ELSE "loop"

\* The thread's next position after recvfrom returned r, and its buffer:
\* if(bytes_received > 0) buffer.resize(bytes_received) and go on to the
\* push, else back to the loop's test.
RecvPc(r) == IF r > 0 THEN "lock" ELSE "loop"
RecvBuffer(r, n) == IF r > 0 THEN [id |-> n, len |-> r] ELSE FreshBuffer

\* recvfrom returns for a datagram (or with an error).
RxNetRecv ==
  /\ Alive /\ net_pc = "recv"
  /\ n_arrivals < MaxArrivals
  /\ \E r \in RecvResults :
       /\ bytes_received' = r
       /\ net_pc' = RecvPc(r)
       /\ buffer' = RecvBuffer(r, n_arrivals + 1)
  /\ n_arrivals' = n_arrivals + 1
  /\ UNCHANGED <<obs, shared, g_socket_handle, sock, sock_shut, dec_pc,
                 encoded_packet, decoded, g_jitter_buffer, g_jitter_mutex,
                 g_pcm_buffer, g_pcm_mutex, pb_pc, frameCount, out, txvars,
                 n_playbacks, n_captures, pushed, popped, pcm_pushed,
                 pcm_popped, frames_ok, sent, init_failed, late_shutdown>>

\* recvfrom on a socket that has been shut down for reading returns 0 at
\* once: this is what main's shutdown(g_socket_handle, SHUT_RDWR) is for.
RxNetRecvShut ==
  /\ Alive /\ net_pc = "recv"
  /\ sock_shut
  /\ bytes_received' = 0
  /\ net_pc' = RecvPc(0)
  /\ buffer' = RecvBuffer(0, 0)
  /\ UNCHANGED <<obs, shared, g_socket_handle, sock, sock_shut, dec_pc,
                 encoded_packet, decoded, g_jitter_buffer, g_jitter_mutex,
                 g_pcm_buffer, g_pcm_mutex, pb_pc, frameCount, out, txvars,
                 hist>>

\* std::lock_guard<std::mutex> lock(g_jitter_mutex)
RxNetLock ==
  /\ Alive /\ net_pc = "lock"
  /\ g_jitter_mutex = "free"
  /\ g_jitter_mutex' = "net"
  /\ net_pc' = "push"
  /\ UNCHANGED <<obs, shared, g_socket_handle, sock, sock_shut, buffer,
                 bytes_received, dec_pc, encoded_packet, decoded,
                 g_jitter_buffer, g_pcm_buffer, g_pcm_mutex, pb_pc,
                 frameCount, out, txvars, hist>>

\* g_jitter_buffer.push(buffer); the guard is released at the end of the block.
RxNetPush ==
  /\ Alive /\ net_pc = "push"
  /\ g_jitter_buffer' = QPush(g_jitter_buffer, buffer)
  /\ pushed' = Append(pushed, buffer)
  /\ g_jitter_mutex' = "free"
  /\ net_pc' = "loop"
  /\ UNCHANGED <<obs, shared, g_socket_handle, sock, sock_shut, buffer,
                 bytes_received, dec_pc, encoded_packet, decoded,
                 g_pcm_buffer, g_pcm_mutex, pb_pc, frameCount, out, txvars,
                 n_arrivals, n_playbacks, n_captures, popped, pcm_pushed,
                 pcm_popped, frames_ok, sent, init_failed, late_shutdown>>

\* close(g_socket_handle) after the loop.
RxNetClose ==
  /\ Alive /\ net_pc = "close"
  /\ sock' = "closed"
  /\ net_pc' = "done"
  /\ UNCHANGED <<obs, shared, g_socket_handle, sock_shut, buffer,
                 bytes_received, dec_pc, encoded_packet, decoded,
                 g_jitter_buffer, g_jitter_mutex, g_pcm_buffer, g_pcm_mutex,
                 pb_pc, frameCount, out, txvars, hist>>


\* ---------------------------------------------------- decoder_thread_func
\* while(!g_finished): a new iteration starts with an empty encoded_packet.
RxDecLoop ==
  /\ Alive /\ dec_pc = "loop"
  /\ dec_pc' = IF g_finished THEN "done" ELSE "lock"
  /\ encoded_packet' = NoPacket
  /\ decoded' = <<>>
  /\ UNCHANGED <<obs, shared, g_socket_handle, sock, sock_shut, net_pc,
                 buffer, bytes_received, g_jitter_buffer, g_jitter_mutex,
                 g_pcm_buffer, g_pcm_mutex, pb_pc, frameCount, out, txvars,
                 hist>>

\* std::lock_guard<std::mutex> lock(g_jitter_mutex)
RxDecLock ==
  /\ Alive /\ dec_pc = "lock"
  /\ g_jitter_mutex = "free"
  /\ g_jitter_mutex' = "dec"
  /\ dec_pc' = "pop"
  /\ UNCHANGED <<obs, shared, g_socket_handle, sock, sock_shut, net_pc,
                 buffer, bytes_received, encoded_packet, decoded,
                 g_jitter_buffer, g_pcm_buffer, g_pcm_mutex, pb_pc,
                 frameCount, out, txvars, hist>>

\* JitterTake taking the newest packet instead of the oldest.
JitterTakeLast(q) ==
  IF ~QEmpty(q)
  THEN [queue |-> SubSeq(q, 1, Len(q) - 1), packet |-> q[Len(q)]]
  ELSE [queue |-> q, packet |-> NoPacket]

\* What the block under g_jitter_mutex leaves: the queue and encoded_packet.
\* if(!g_jitter_buffer.empty()) { encoded_packet = front(); pop(); }
JitterTake(q) ==
  IF ~QEmpty(q)
  THEN [queue |-> QPop(q), packet |-> QFront(q)]
  ELSE [queue |-> q, packet |-> NoPacket]

RxDecPop ==
  /\ Alive /\ dec_pc = "pop"
  /\ LET t == JitterTake(g_jitter_buffer) IN
       /\ g_jitter_buffer' = t.queue
       /\ encoded_packet' = t.packet
       /\ popped' = IF QEmpty(g_jitter_buffer) THEN popped
                    ELSE Append(popped, t.packet)
  /\ g_jitter_mutex' = "free"
  /\ dec_pc' = "decode"
  /\ UNCHANGED <<obs, shared, g_socket_handle, sock, sock_shut, net_pc,
                 buffer, bytes_received, decoded, g_pcm_buffer, g_pcm_mutex,
                 pb_pc, frameCount, out, txvars, n_arrivals, n_playbacks,
                 n_captures, pushed, pcm_pushed, pcm_popped, frames_ok, sent,
                 init_failed, late_shutdown>>

\* The frame the codec decodes from a packet: kFramesPerBuffer samples
\* (DecodeSamples(kFramesPerBuffer)), here the packet's serial number spread
\* over distinct non-zero values.
Frame(p) == [i \in 1..kFramesPerBuffer |-> (p.id - 1) * kFramesPerBuffer + i]

\* What the codec does with a packet: SetEncodedPacket refuses it,
\* DecodeSamples returns nullopt, or DecodeSamples returns a frame.
CodecOutcomes == {"rejected", "nullopt", "frame"}

\* DecodePc leaving the loop when the codec gives no frame.
DecodePcFatal(outcome) == IF outcome = "frame" THEN "lockpcm" ELSE "done"

\* The decoder's next position after the codec's answer: only a frame is
\* pushed; everything else goes back to the loop's test.
DecodePc(outcome) == IF outcome = "frame" THEN "lockpcm" ELSE "loop"

\* if(!encoded_packet.empty()): SetEncodedPacket and DecodeSamples.
RxDecDecode ==
  /\ Alive /\ dec_pc = "decode"
  /\ ~VecEmpty(encoded_packet)
  /\ \E outcome \in CodecOutcomes :
       /\ dec_pc' = DecodePc(outcome)
       /\ decoded' = IF outcome = "frame" THEN Frame(encoded_packet) ELSE <<>>
       /\ frames_ok' = IF outcome = "frame"
                       THEN Append(frames_ok, encoded_packet) ELSE frames_ok
  /\ UNCHANGED <<obs, shared, g_socket_handle, sock, sock_shut, net_pc,
                 buffer, bytes_received, encoded_packet, g_jitter_buffer,
                 g_jitter_mutex, g_pcm_buffer, g_pcm_mutex, pb_pc, frameCount,
                 out, txvars, n_arrivals, n_playbacks, n_captures, pushed,
                 popped, pcm_pushed, pcm_popped, sent, init_failed,
                 late_shutdown>>

\* else: std::this_thread::sleep_for(5 ms)
RxDecSleep ==
  /\ Alive /\ dec_pc = "decode"
  /\ VecEmpty(encoded_packet)
  /\ dec_pc' = "loop"
  /\ UNCHANGED <<obs, shared, g_socket_handle, sock, sock_shut, net_pc,
                 buffer, bytes_received, encoded_packet, decoded,
                 g_jitter_buffer, g_jitter_mutex, g_pcm_buffer, g_pcm_mutex,
                 pb_pc, frameCount, out, txvars, hist>>

\* std::lock_guard<std::mutex> lock(g_pcm_mutex)
RxDecLockPcm ==
  /\ Alive /\ dec_pc = "lockpcm"
  /\ g_pcm_mutex = "free"
  /\ g_pcm_mutex' = "dec"
  /\ dec_pc' = "push"
  /\ UNCHANGED <<obs, shared, g_socket_handle, sock, sock_shut, net_pc,
                 buffer, bytes_received, encoded_packet, decoded,
                 g_jitter_buffer, g_jitter_mutex, g_pcm_buffer, pb_pc,
                 frameCount, out, txvars, hist>>

\* PushAll stopping one sample short of the frame's end.
PushAllButLast(q, samples) ==
  IF samples = <<>> THEN q ELSE q \o SubSeq(samples, 1, Len(samples) - 1)

\* for(int16_t sample : decoded.value()) g_pcm_buffer.push(sample);
RECURSIVE PushAll(_, _)
PushAll(q, samples) ==
  IF samples = <<>> THEN q
  ELSE PushAll(QPush(q, Head(samples)), Tail(samples))

\* RxDecPush with the guard taken inside the for loop: one sample is pushed
\* each time the mutex is held.
RxDecPushPerSample ==
  /\ Alive /\ dec_pc = "push"
  /\ g_pcm_buffer' = QPush(g_pcm_buffer, Head(decoded))
  /\ pcm_pushed' = Append(pcm_pushed, Head(decoded))
  /\ decoded' = Tail(decoded)
  /\ g_pcm_mutex' = "free"
  /\ dec_pc' = IF Tail(decoded) = <<>> THEN "loop" ELSE "lockpcm"
  /\ UNCHANGED <<obs, shared, g_socket_handle, sock, sock_shut, net_pc,
                 buffer, bytes_received, encoded_packet, g_jitter_buffer,
                 g_jitter_mutex, pb_pc, frameCount, out, txvars, n_arrivals,
                 n_playbacks, n_captures, pushed, popped, pcm_popped,
                 frames_ok, sent, init_failed, late_shutdown>>

\* The whole for loop runs under the guard, which is then released.
RxDecPush ==
  /\ Alive /\ dec_pc = "push"
  /\ g_pcm_buffer' = PushAll(g_pcm_buffer, decoded)
  /\ pcm_pushed' = pcm_pushed \o decoded
  /\ g_pcm_mutex' = "free"
  /\ dec_pc' = "loop"
  /\ UNCHANGED <<obs, shared, g_socket_handle, sock, sock_shut, net_pc,
                 buffer, bytes_received, encoded_packet, decoded,
                 g_jitter_buffer, g_jitter_mutex, pb_pc, frameCount, out,
                 txvars, n_arrivals, n_playbacks, n_captures, pushed, popped,
                 pcm_popped, frames_ok, sent, init_failed, late_shutdown>>

\* ------------------------------------------------- audioCallback (playback)
\* The frame counts the driver asks for: the stream is opened with
\* kFramesPerBuffer; a shorter request exercises the loop's bound.
FrameCounts == {kFramesPerBuffer - 1, kFramesPerBuffer}

\* The driver invokes the callback while the stream is active; the callback
\* first waits for g_pcm_mutex.  The output buffer is the driver's, with
\* whatever it held before.
RxPlayInvoke ==
  /\ Alive /\ prog = "receiver"
  /\ DriverCalls /\ pb_pc = "idle"
  /\ n_playbacks < MaxPlaybacks
  /\ \E n \in FrameCounts :
       /\ frameCount' = n
       /\ out' = [i \in 1..n |-> Stale]
       /\ requests' = requests \cup {n}
  /\ pb_pc' = "lock"
  /\ cb_result' = "none"
  /\ n_playbacks' = n_playbacks + 1
  /\ UNCHANGED <<pcm_left, shared, g_socket_handle, sock, sock_shut, net_pc,
                 buffer, bytes_received, dec_pc, encoded_packet, decoded,
                 g_jitter_buffer, g_jitter_mutex, g_pcm_buffer, g_pcm_mutex,
                 txvars, n_arrivals, n_captures, pushed, popped, pcm_pushed,
                 pcm_popped, frames_ok, sent, init_failed, late_shutdown>>

\* std::lock_guard<std::mutex> lock(g_pcm_mutex)
RxPlayLock ==
  /\ Alive /\ pb_pc = "lock"
  /\ g_pcm_mutex = "free"
  /\ g_pcm_mutex' = "cb"
  /\ pb_pc' = "fill"
  /\ UNCHANGED <<obs, shared, g_socket_handle, sock, sock_shut, net_pc,
                 buffer, bytes_received, dec_pc, encoded_packet, decoded,
                 g_jitter_buffer, g_jitter_mutex, g_pcm_buffer, frameCount,
                 out, txvars, hist>>

\* FillStep popping a second sample after the one it wrote.
FillStepDropsNext(st, i) ==
  IF ~QEmpty(st.queue)
  THEN [queue |-> IF Len(st.queue) > 1 THEN QPop(QPop(st.queue))
                  ELSE QPop(st.queue),
        out   |-> [st.out EXCEPT ![i] = QFront(st.queue)],
        taken |-> Append(st.taken, QFront(st.queue))]
  ELSE [queue |-> st.queue,
        out   |-> [st.out EXCEPT ![i] = 0],
        taken |-> st.taken]

\* FillStep without the else branch: on underrun the position is not written.
FillStepNoSilence(st, i) ==
  IF ~QEmpty(st.queue)
  THEN [queue |-> QPop(st.queue),
        out   |-> [st.out EXCEPT ![i] = QFront(st.queue)],
        taken |-> Append(st.taken, QFront(st.queue))]
  ELSE st

\* One iteration of the for loop at position i (1-based here): a sample from
\* the queue, or 0 when the queue is empty.
FillStep(st, i) ==
  IF ~QEmpty(st.queue)
  THEN [queue |-> QPop(st.queue),
        out   |-> [st.out EXCEPT ![i] = QFront(st.queue)],
        taken |-> Append(st.taken, QFront(st.queue))]
  ELSE [queue |-> st.queue,
        out   |-> [st.out EXCEPT ![i] = 0],
        taken |-> st.taken]

\* for (int i = 0; i < frameCount; ++i) ...
RECURSIVE FillLoop(_, _, _)
FillLoop(st, i, n) ==
  IF i > n THEN st ELSE FillLoop(FillStep(st, i), i + 1, n)

\* The loop runs under the guard; return paContinue releases it.
RxPlayFill ==
  /\ Alive /\ pb_pc = "fill"
  /\ LET r == FillLoop([queue |-> g_pcm_buffer, out |-> out, taken |-> <<>>],
                       1, frameCount) IN
       /\ g_pcm_buffer' = r.queue
       /\ out' = r.out
       /\ pcm_popped' = pcm_popped \o r.taken
       /\ pcm_left' = Len(r.queue)
  /\ g_pcm_mutex' = "free"
  /\ pb_pc' = "idle"
  /\ cb_result' = "paContinue"
  /\ UNCHANGED <<requests, shared, g_socket_handle, sock, sock_shut, net_pc,
                 buffer, bytes_received, dec_pc, encoded_packet, decoded,
                 g_jitter_buffer, g_jitter_mutex, frameCount, txvars,
                 n_arrivals, n_playbacks, n_captures, pushed, popped,
                 pcm_pushed, frames_ok, sent, init_failed, late_shutdown>>


\* ------------------------------------------------------- main (receiver)
\* LyraDecoder::Create: nullptr makes main return 1 before any thread exists.
RxMainCreate ==
  /\ prog = "receiver" /\ main_pc = "create"
  /\ \E ok \in BOOLEAN :
       IF ok
       THEN /\ main_pc' = "launch_net"
            /\ UNCHANGED <<exit_code, init_failed>>
       ELSE /\ main_pc' = "exited"
            /\ exit_code' = 1
            /\ init_failed' = init_failed \cup {"codec"}
  /\ UNCHANGED <<obs, prog, g_finished, stream, rxvars, txvars, n_arrivals,
                 n_playbacks, n_captures, pushed, popped, pcm_pushed,
                 pcm_popped, frames_ok, sent, late_shutdown>>

\* std::thread network_thread(network_thread_func, port)
RxMainLaunchNet ==
  /\ prog = "receiver" /\ main_pc = "launch_net"
  /\ net_pc' = "socket"
  /\ main_pc' = "launch_dec"
  /\ UNCHANGED <<obs, prog, exit_code, g_finished, stream, g_socket_handle,
                 sock, sock_shut, buffer, bytes_received, dec_pc,
                 encoded_packet, decoded, g_jitter_buffer, g_jitter_mutex,
                 g_pcm_buffer, g_pcm_mutex, pb_pc, frameCount, out, txvars,
                 hist>>

\* std::thread decoder_thread(decoder_thread_func, decoder.get())
RxMainLaunchDec ==
  /\ prog = "receiver" /\ main_pc = "launch_dec"
  /\ dec_pc' = "loop"
  /\ main_pc' = "pa_init"
  /\ UNCHANGED <<obs, prog, exit_code, g_finished, stream, g_socket_handle,
                 sock, sock_shut, net_pc, buffer, bytes_received,
                 encoded_packet, decoded, g_jitter_buffer, g_jitter_mutex,
                 g_pcm_buffer, g_pcm_mutex, pb_pc, frameCount, out, txvars,
                 hist>>

\* Pa_Initialize(); Pa_GetDefaultOutputDevice();
\* Pa_GetDeviceInfo(device)->defaultLowOutputLatency: without a default
\* device Pa_GetDeviceInfo returns NULL and the member access faults.
RxMainPaInit ==
  /\ prog = "receiver" /\ main_pc = "pa_init"
  /\ \E device \in BOOLEAN :
       IF device
       THEN /\ main_pc' = "open"
            /\ UNCHANGED <<exit_code, init_failed>>
       ELSE /\ main_pc' = "crashed"
            /\ exit_code' = 139
            /\ init_failed' = init_failed \cup {"device"}
  /\ UNCHANGED <<obs, prog, g_finished, stream, rxvars, txvars, n_arrivals,
                 n_playbacks, n_captures, pushed, popped, pcm_pushed,
                 pcm_popped, frames_ok, sent, late_shutdown>>

\* Pa_OpenStream(&stream, ...): its result is not looked at; on failure
\* `stream` stays uninitialised.
RxMainOpen ==
  /\ prog = "receiver" /\ main_pc = "open"
  /\ \E ok \in BOOLEAN :
       /\ stream' = IF ok THEN "open" ELSE "garbage"
       /\ init_failed' = IF ok THEN init_failed ELSE init_failed \cup {"open"}
  /\ main_pc' = "start"
  /\ UNCHANGED <<obs, prog, exit_code, g_finished, rxvars, txvars, n_arrivals,
                 n_playbacks, n_captures, pushed, popped, pcm_pushed,
                 pcm_popped, frames_ok, sent, late_shutdown>>

\* Pa_StartStream(stream): its result is not looked at; main goes on to
\* wait in std::cin.get().
RxMainStart ==
  /\ prog = "receiver" /\ main_pc = "start"
  /\ \E o \in StartOutcomes(stream) :
       /\ MainAfterPa(o, StartStream(stream, o), "wait")
       /\ init_failed' = IF o = "ok" \/ stream = "garbage" THEN init_failed
                         ELSE init_failed \cup {"start"}
  /\ UNCHANGED <<obs, prog, g_finished, rxvars, txvars, n_arrivals,
                 n_playbacks, n_captures, pushed, popped, pcm_pushed,
                 pcm_popped, frames_ok, sent, late_shutdown>>

\* RxMainStop leaving std::cin.get() without setting g_finished.
RxMainStopNoFlag ==
  /\ prog = "receiver" /\ main_pc = "wait"
  /\ main_pc' = "shutdown"
  /\ UNCHANGED <<obs, prog, exit_code, g_finished, stream, rxvars, txvars,
                 hist>>

\* std::cin.get() returns (the stop signal); g_finished = true.
RxMainStop ==
  /\ prog = "receiver" /\ main_pc = "wait"
  /\ g_finished' = TRUE
  /\ main_pc' = "shutdown"
  /\ UNCHANGED <<obs, prog, exit_code, stream, rxvars, txvars, hist>>

\* A shutdown that leaves a socket that is not connected untouched.
ShutdownNever(fd, s) == FALSE

\* What shutdown(fd, SHUT_RDWR) does to the socket's read side: it marks an
\* open socket shut down; on -1 or a closed descriptor it fails with EBADF.
ShutdownApplies(fd, s) == fd >= 0 /\ s \in {"open", "bound"}

\* shutdown(g_socket_handle, SHUT_RDWR)
RxMainShutdown ==
  /\ prog = "receiver" /\ main_pc = "shutdown"
  /\ sock_shut' = (sock_shut \/ ShutdownApplies(g_socket_handle, sock))
  /\ late_shutdown' = (late_shutdown \/ (g_socket_handle >= 0 /\ sock = "closed"))
  /\ main_pc' = "join_net"
  /\ UNCHANGED <<obs, prog, exit_code, g_finished, stream, g_socket_handle,
                 sock, net_pc, buffer, bytes_received, dec_pc, encoded_packet,
                 decoded, g_jitter_buffer, g_jitter_mutex, g_pcm_buffer,
                 g_pcm_mutex, pb_pc, frameCount, out, txvars, n_arrivals,
                 n_playbacks, n_captures, pushed, popped, pcm_pushed,
                 pcm_popped, frames_ok, sent, init_failed>>

\* network_thread.join()
RxMainJoinNet ==
  /\ prog = "receiver" /\ main_pc = "join_net"
  /\ net_pc = "done"
  /\ main_pc' = "join_dec"
  /\ UNCHANGED <<obs, prog, exit_code, g_finished, stream, rxvars, txvars,
                 hist>>

\* decoder_thread.join()
RxMainJoinDec ==
  /\ prog = "receiver" /\ main_pc = "join_dec"
  /\ dec_pc = "done"
  /\ main_pc' = "stopstream"
  /\ UNCHANGED <<obs, prog, exit_code, g_finished, stream, rxvars, txvars,
                 hist>>

\* Pa_StopStream(stream): returns once no callback is running.
RxMainStopStream ==
  /\ prog = "receiver" /\ main_pc = "stopstream"
  /\ pb_pc = "idle"
  /\ \E o \in StopOutcomes(stream) :
       MainAfterPa(o, StopStream(stream, o), "closestream")
  /\ UNCHANGED <<obs, prog, g_finished, rxvars, txvars, hist>>

\* Pa_CloseStream(stream)
RxMainCloseStream ==
  /\ prog = "receiver" /\ main_pc = "closestream"
  /\ pb_pc = "idle"
  /\ \E o \in CloseOutcomes(stream) :
       MainAfterPa(o, CloseStream(stream, o), "terminate")
  /\ UNCHANGED <<obs, prog, g_finished, rxvars, txvars, hist>>

\* Pa_Terminate(); return 0
RxMainReturn ==
  /\ prog = "receiver" /\ main_pc = "terminate"
  /\ stream' = Terminate(stream)
  /\ main_pc' = "exited"
  /\ exit_code' = 0
  /\ UNCHANGED <<obs, prog, g_finished, rxvars, txvars, hist>>

RxNext ==
  \/ RxMainCreate \/ RxMainLaunchNet \/ RxMainLaunchDec \/ RxMainPaInit
  \/ RxMainOpen \/ RxMainStart \/ RxMainStop \/ RxMainShutdown
  \/ RxMainJoinNet \/ RxMainJoinDec \/ RxMainStopStream
  \/ RxMainCloseStream \/ RxMainReturn
  \/ RxNetSocket \/ RxNetBind \/ RxNetLoop \/ RxNetRecv \/ RxNetRecvShut
  \/ RxNetLock \/ RxNetPush \/ RxNetClose
  \/ RxDecLoop \/ RxDecLock \/ RxDecPop \/ RxDecDecode \/ RxDecSleep
  \/ RxDecLockPcm \/ RxDecPush
  \/ RxPlayInvoke \/ RxPlayLock \/ RxPlayFill


\* ================================================================== sender
\* ------------------------------------------------- audioCallback (capture)
\* CaptureReturn giving the driver paAbort for a frame that did not encode.
CaptureReturnAbortOnFailure(ok) == IF ok THEN "paContinue" ELSE "paAbort"

\* What the capture callback returns to the driver, the frame encoded (ok)
\* or not: return paContinue is its last statement on both paths.
CaptureReturn(ok) == "paContinue"

\* encoder->Encode(...): a packet of kPacketBytes bytes, or nullopt.  With a
\* packet the callback goes on to the push; without one it returns.
TxCapInvoke ==
  /\ Alive /\ prog = "sender"
  /\ DriverCalls /\ cap_pc = "idle"
  /\ n_captures < MaxCaptures
  /\ \E ok \in BOOLEAN :
       /\ encoded' = IF ok THEN [id |-> n_captures + 1, len |-> kPacketBytes]
                     ELSE NoPacket
       /\ cap_pc' = IF ok THEN "lock" ELSE "idle"
       /\ cb_result' = IF ok THEN "none" ELSE CaptureReturn(ok)
  /\ n_captures' = n_captures + 1
  /\ UNCHANGED <<requests, pcm_left, shared, rxvars, snd_pc, snd_sock,
                 packet_to_send, g_encoded_packets_queue, g_queue_mutex,
                 n_arrivals, n_playbacks, pushed, popped, pcm_pushed,
                 pcm_popped, frames_ok, sent, init_failed, late_shutdown>>

\* std::lock_guard<std::mutex> lock(g_queue_mutex)
TxCapLock ==
  /\ Alive /\ cap_pc = "lock"
  /\ g_queue_mutex = "free"
  /\ g_queue_mutex' = "cb"
  /\ cap_pc' = "push"
  /\ UNCHANGED <<obs, shared, rxvars, snd_pc, snd_sock, packet_to_send,
                 g_encoded_packets_queue, encoded, hist>>

\* g_encoded_packets_queue.push(encoded.value()); return paContinue
TxCapPush ==
  /\ Alive /\ cap_pc = "push"
  /\ g_encoded_packets_queue' = QPush(g_encoded_packets_queue, encoded)
  /\ pushed' = Append(pushed, encoded)
  /\ g_queue_mutex' = "free"
  /\ cap_pc' = "idle"
  /\ cb_result' = CaptureReturn(TRUE)
  /\ UNCHANGED <<requests, pcm_left, shared, rxvars, snd_pc, snd_sock,
                 packet_to_send, encoded, n_arrivals, n_playbacks, n_captures,
                 popped, pcm_pushed, pcm_popped, frames_ok, sent, init_failed,
                 late_shutdown>>

\* ---------------------------------------------------- network_thread_func
\* int sock = socket(AF_INET, SOCK_DGRAM, 0); a negative result makes the
\* thread return.
TxNetSocket ==
  /\ Alive /\ snd_pc = "socket"
  /\ \E ok \in BOOLEAN :
       /\ snd_sock' = IF ok THEN "open" ELSE snd_sock
       /\ snd_pc' = IF ok THEN "loop" ELSE "done"
       /\ init_failed' = IF ok THEN init_failed
                         ELSE init_failed \cup {"socket"}
  /\ UNCHANGED <<obs, shared, rxvars, packet_to_send, g_encoded_packets_queue,
                 g_queue_mutex, cap_pc, encoded, n_arrivals, n_playbacks,
                 n_captures, pushed, popped, pcm_pushed, pcm_popped,
                 frames_ok, sent, late_shutdown>>

\* while(!g_finished): a new iteration starts with an empty packet_to_send.
TxNetLoop ==
  /\ Alive /\ snd_pc = "loop"
  /\ snd_pc' = IF g_finished THEN "close" ELSE "lock"
  /\ packet_to_send' = NoPacket
  /\ UNCHANGED <<obs, shared, rxvars, snd_sock, g_encoded_packets_queue,
                 g_queue_mutex, cap_pc, encoded, hist>>

\* std::lock_guard<std::mutex> lock(g_queue_mutex)
TxNetLock ==
  /\ Alive /\ snd_pc = "lock"
  /\ g_queue_mutex = "free"
  /\ g_queue_mutex' = "net"
  /\ snd_pc' = "pop"
  /\ UNCHANGED <<obs, shared, rxvars, snd_sock, packet_to_send,
                 g_encoded_packets_queue, cap_pc, encoded, hist>>

\* What the block under g_queue_mutex leaves: the queue and packet_to_send.
\* if(!g_encoded_packets_queue.empty()) { packet_to_send = front(); pop(); }
OutboundTake(q) ==
  IF ~QEmpty(q)
  THEN [queue |-> QPop(q), packet |-> QFront(q)]
  ELSE [queue |-> q, packet |-> NoPacket]

TxNetPop ==
  /\ Alive /\ snd_pc = "pop"
  /\ LET t == OutboundTake(g_encoded_packets_queue) IN
       /\ g_encoded_packets_queue' = t.queue
       /\ packet_to_send' = t.packet
       /\ popped' = IF QEmpty(g_encoded_packets_queue) THEN popped
                    ELSE Append(popped, t.packet)
  /\ g_queue_mutex' = "free"
  /\ snd_pc' = "send"
  /\ UNCHANGED <<obs, shared, rxvars, snd_sock, cap_pc, encoded, n_arrivals,
                 n_playbacks, n_captures, pushed, pcm_pushed, pcm_popped,
                 frames_ok, sent, init_failed, late_shutdown>>

\* if(!packet_to_send.empty()) sendto(sock, ...): its result is not looked at.
TxNetSend ==
  /\ Alive /\ snd_pc = "send"
  /\ ~VecEmpty(packet_to_send)
  /\ sent' = Append(sent, packet_to_send)
  /\ snd_pc' = "loop"
  /\ UNCHANGED <<obs, shared, rxvars, snd_sock, packet_to_send,
                 g_encoded_packets_queue, g_queue_mutex, cap_pc, encoded,
                 n_arrivals, n_playbacks, n_captures, pushed, popped,
                 pcm_pushed, pcm_popped, frames_ok, init_failed, late_shutdown>>

\* else: std::this_thread::sleep_for(5 ms)
TxNetSleep ==
  /\ Alive /\ snd_pc = "send"
  /\ VecEmpty(packet_to_send)
  /\ snd_pc' = "loop"
  /\ UNCHANGED <<obs, shared, rxvars, snd_sock, packet_to_send,
                 g_encoded_packets_queue, g_queue_mutex, cap_pc, encoded, hist>>

\* close(sock) after the loop.
TxNetClose ==
  /\ Alive /\ snd_pc = "close"
  /\ snd_sock' = "closed"
  /\ snd_pc' = "done"
  /\ UNCHANGED <<obs, shared, rxvars, packet_to_send, g_encoded_packets_queue,
                 g_queue_mutex, cap_pc, encoded, hist>>

\* ---------------------------------------------------------- main (sender)
\* LyraEncoder::Create: nullptr makes main return 1 before any thread exists.
TxMainCreate ==
  /\ prog = "sender" /\ main_pc = "create"
  /\ \E ok \in BOOLEAN :
       IF ok
       THEN /\ main_pc' = "launch_net"
            /\ UNCHANGED <<exit_code, init_failed>>
       ELSE /\ main_pc' = "exited"
            /\ exit_code' = 1
            /\ init_failed' = init_failed \cup {"codec"}
  /\ UNCHANGED <<obs, prog, g_finished, stream, rxvars, txvars, n_arrivals,
                 n_playbacks, n_captures, pushed, popped, pcm_pushed,
                 pcm_popped, frames_ok, sent, late_shutdown>>

\* std::thread network_thread(network_thread_func, server_ip, port)
TxMainLaunchNet ==
  /\ prog = "sender" /\ main_pc = "launch_net"
  /\ snd_pc' = "socket"
  /\ main_pc' = "pa_init"
  /\ UNCHANGED <<obs, prog, exit_code, g_finished, stream, rxvars, snd_sock,
                 packet_to_send, g_encoded_packets_queue, g_queue_mutex,
                 cap_pc, encoded, hist>>

\* Pa_Initialize(); Pa_GetDefaultInputDevice();
\* Pa_GetDeviceInfo(device)->defaultLowInputLatency: without a default device
\* Pa_GetDeviceInfo returns NULL and the member access faults.
TxMainPaInit ==
  /\ prog = "sender" /\ main_pc = "pa_init"
  /\ \E device \in BOOLEAN :
       IF device
       THEN /\ main_pc' = "open"
            /\ UNCHANGED <<exit_code, init_failed>>
       ELSE /\ main_pc' = "crashed"
            /\ exit_code' = 139
            /\ init_failed' = init_failed \cup {"device"}
  /\ UNCHANGED <<obs, prog, g_finished, stream, rxvars, txvars, n_arrivals,
                 n_playbacks, n_captures, pushed, popped, pcm_pushed,
                 pcm_popped, frames_ok, sent, late_shutdown>>

\* Pa_OpenStream(&stream, ...): its result is not looked at; on failure
\* `stream` stays uninitialised.
TxMainOpen ==
  /\ prog = "sender" /\ main_pc = "open"
  /\ \E ok \in BOOLEAN :
       /\ stream' = IF ok THEN "open" ELSE "garbage"
       /\ init_failed' = IF ok THEN init_failed ELSE init_failed \cup {"open"}
  /\ main_pc' = "start"
  /\ UNCHANGED <<obs, prog, exit_code, g_finished, rxvars, txvars, n_arrivals,
                 n_playbacks, n_captures, pushed, popped, pcm_pushed,
                 pcm_popped, frames_ok, sent, late_shutdown>>

\* Pa_StartStream(stream): its result is not looked at; main goes on to
\* wait in std::cin.get().
TxMainStart ==
  /\ prog = "sender" /\ main_pc = "start"
  /\ \E o \in StartOutcomes(stream) :
       /\ MainAfterPa(o, StartStream(stream, o), "wait")
       /\ init_failed' = IF o = "ok" \/ stream = "garbage" THEN init_failed
                         ELSE init_failed \cup {"start"}
  /\ UNCHANGED <<obs, prog, g_finished, rxvars, txvars, n_arrivals,
                 n_playbacks, n_captures, pushed, popped, pcm_pushed,
                 pcm_popped, frames_ok, sent, late_shutdown>>

\* std::cin.get() returns (the stop signal); g_finished = true.
TxMainStop ==
  /\ prog = "sender" /\ main_pc = "wait"
  /\ g_finished' = TRUE
  /\ main_pc' = "stopstream"
  /\ UNCHANGED <<obs, prog, exit_code, stream, rxvars, txvars, hist>>

\* Pa_StopStream(stream): returns once no callback is running.
TxMainStopStream ==
  /\ prog = "sender" /\ main_pc = "stopstream"
  /\ cap_pc = "idle"
  /\ \E o \in StopOutcomes(stream) :
       MainAfterPa(o, StopStream(stream, o), "closestream")
  /\ UNCHANGED <<obs, prog, g_finished, rxvars, txvars, hist>>

\* Pa_CloseStream(stream)
TxMainCloseStream ==
  /\ prog = "sender" /\ main_pc = "closestream"
  /\ cap_pc = "idle"
  /\ \E o \in CloseOutcomes(stream) :
       MainAfterPa(o, CloseStream(stream, o), "terminate")
  /\ UNCHANGED <<obs, prog, g_finished, rxvars, txvars, hist>>

\* Pa_Terminate()
TxMainTerminate ==
  /\ prog = "sender" /\ main_pc = "terminate"
  /\ stream' = Terminate(stream)
  /\ main_pc' = "join_net"
  /\ UNCHANGED <<obs, prog, exit_code, g_finished, rxvars, txvars, hist>>

\* TxMainJoinNet returning without waiting for the thread.
TxMainJoinNetNoWait ==
  /\ prog = "sender" /\ main_pc = "join_net"
  /\ main_pc' = "exited"
  /\ exit_code' = 0
  /\ UNCHANGED <<obs, prog, g_finished, stream, rxvars, txvars, hist>>

\* network_thread.join(); return 0
TxMainJoinNet ==
  /\ prog = "sender" /\ main_pc = "join_net"
  /\ snd_pc = "done"
  /\ main_pc' = "exited"
  /\ exit_code' = 0
  /\ UNCHANGED <<obs, prog, g_finished, stream, rxvars, txvars, hist>>

TxNext ==
  \/ TxMainCreate \/ TxMainLaunchNet \/ TxMainPaInit \/ TxMainOpen
  \/ TxMainStart \/ TxMainStop \/ TxMainStopStream \/ TxMainCloseStream
  \/ TxMainTerminate \/ TxMainJoinNet
  \/ TxNetSocket \/ TxNetLoop \/ TxNetLock \/ TxNetPop \/ TxNetSend
  \/ TxNetSleep \/ TxNetClose
  \/ TxCapInvoke \/ TxCapLock \/ TxCapPush


\* ==================================================================== demo
\* ------------------------------------------------------------ audioCallback
\* What the callback writes for a frame of n samples: the decoded frame when
\* Encode, SetEncodedPacket and DecodeSamples all succeed (std::copy), else
\* n zeros (std::fill).
DemoOut(ok, outcome, p, n) ==
  IF ok /\ outcome = "frame"
  THEN [i \in 1..n |-> Frame(p)[i]]
  ELSE [i \in 1..n |-> 0]

\* The driver invokes the callback with kFramesPerBuffer frames while the
\* stream is active; the callback takes no lock.
DemoCallback ==
  /\ Alive /\ prog = "demo"
  /\ DriverCalls
  /\ n_captures < MaxCaptures
  /\ \E ok \in BOOLEAN, outcome \in CodecOutcomes :
       LET p == [id |-> n_captures + 1, len |-> kPacketBytes] IN
         /\ encoded' = IF ok THEN p ELSE NoPacket
         /\ out' = DemoOut(ok, outcome, p, kFramesPerBuffer)
  /\ frameCount' = kFramesPerBuffer
  /\ cb_result' = "paContinue"
  /\ n_captures' = n_captures + 1
  /\ UNCHANGED <<requests, pcm_left, shared, g_socket_handle, sock, sock_shut,
                 net_pc, buffer, bytes_received, dec_pc, encoded_packet,
                 decoded, g_jitter_buffer, g_jitter_mutex, g_pcm_buffer,
                 g_pcm_mutex, pb_pc, snd_pc, snd_sock, packet_to_send,
                 g_encoded_packets_queue, g_queue_mutex, cap_pc, n_arrivals,
                 n_playbacks, pushed, popped, pcm_pushed, pcm_popped,
                 frames_ok, sent, init_failed, late_shutdown>>

\* ------------------------------------------------------------ main (demo)
\* LyraEncoder::Create and LyraDecoder::Create: if (!encoder || !decoder)
\* return 1.
DemoMainCreate ==
  /\ prog = "demo" /\ main_pc = "create"
  /\ \E ok \in BOOLEAN :
       IF ok
       THEN /\ main_pc' = "pa_init"
            /\ UNCHANGED <<exit_code, init_failed>>
       ELSE /\ main_pc' = "exited"
            /\ exit_code' = 1
            /\ init_failed' = init_failed \cup {"codec"}
  /\ UNCHANGED <<obs, prog, g_finished, stream, rxvars, txvars, n_arrivals,
                 n_playbacks, n_captures, pushed, popped, pcm_pushed,
                 pcm_popped, frames_ok, sent, late_shutdown>>

\* PA_CHECK(Pa_Initialize()), then the default input and output devices:
\* an error or paNoDevice is a goto error.
DemoMainPaInit ==
  /\ prog = "demo" /\ main_pc = "pa_init"
  /\ \E ok \in BOOLEAN :
       /\ main_pc' = IF ok THEN "open" ELSE "error"
       /\ init_failed' = IF ok THEN init_failed
                         ELSE init_failed \cup {"device"}
  /\ UNCHANGED <<obs, prog, exit_code, g_finished, stream, rxvars, txvars,
                 n_arrivals, n_playbacks, n_captures, pushed, popped,
                 pcm_pushed, pcm_popped, frames_ok, sent, late_shutdown>>

\* PA_CHECK(Pa_OpenStream(&stream, ...))
DemoMainOpen ==
  /\ prog = "demo" /\ main_pc = "open"
  /\ \E ok \in BOOLEAN :
       /\ stream' = IF ok THEN "open" ELSE "garbage"
       /\ main_pc' = IF ok THEN "start" ELSE "error"
       /\ init_failed' = IF ok THEN init_failed ELSE init_failed \cup {"open"}
  /\ UNCHANGED <<obs, prog, exit_code, g_finished, rxvars, txvars, n_arrivals,
                 n_playbacks, n_captures, pushed, popped, pcm_pushed,
                 pcm_popped, frames_ok, sent, late_shutdown>>

\* PA_CHECK(Pa_StartStream(stream)); then std::cin.get()
DemoMainStart ==
  /\ prog = "demo" /\ main_pc = "start"
  /\ \E o \in StartOutcomes(stream) :
       /\ stream' = StartStream(stream, o)
       /\ main_pc' = IF o = "ok" THEN "wait" ELSE "error"
       /\ init_failed' = IF o = "ok" THEN init_failed
                         ELSE init_failed \cup {"start"}
  /\ UNCHANGED <<obs, prog, exit_code, g_finished, rxvars, txvars, n_arrivals,
                 n_playbacks, n_captures, pushed, popped, pcm_pushed,
                 pcm_popped, frames_ok, sent, late_shutdown>>

\* std::cin.get() returns (the stop signal); PA_CHECK(Pa_StopStream(stream))
DemoMainStopStream ==
  /\ prog = "demo" /\ main_pc = "wait"
  /\ \E o \in StopOutcomes(stream) :
       /\ stream' = StopStream(stream, o)
       /\ main_pc' = IF o = "ok" THEN "closestream" ELSE "error"
  /\ UNCHANGED <<obs, prog, exit_code, g_finished, rxvars, txvars, hist>>

\* PA_CHECK(Pa_CloseStream(stream)); Pa_CloseStream fails only on a handle
\* that is no stream, and `stream` is one here.
DemoMainCloseStream ==
  /\ prog = "demo" /\ main_pc = "closestream"
  /\ \E o \in CloseOutcomes(stream) :
       /\ stream' = CloseStream(stream, o)
       /\ main_pc' = IF o = "ok" THEN "terminate" ELSE "error"
  /\ UNCHANGED <<obs, prog, exit_code, g_finished, rxvars, txvars, hist>>

\* Pa_Terminate(); return 0
DemoMainReturn ==
  /\ prog = "demo" /\ main_pc = "terminate"
  /\ stream' = Terminate(stream)
  /\ main_pc' = "exited"
  /\ exit_code' = 0
  /\ UNCHANGED <<obs, prog, g_finished, rxvars, txvars, hist>>

\* error: Pa_Terminate(); return 1
DemoMainError ==
  /\ prog = "demo" /\ main_pc = "error"
  /\ stream' = Terminate(stream)
  /\ main_pc' = "exited"
  /\ exit_code' = 1
  /\ UNCHANGED <<obs, prog, g_finished, rxvars, txvars, hist>>

DemoNext ==
  \/ DemoMainCreate \/ DemoMainPaInit \/ DemoMainOpen \/ DemoMainStart
  \/ DemoMainStopStream \/ DemoMainCloseStream \/ DemoMainReturn
  \/ DemoMainError \/ DemoCallback

Next == RxNext \/ TxNext \/ DemoNext

Spec == Init /\ [][Next]_vars


\* ---------------------------------------------------------------- fairness
\* The steps the scheduler owes each thread.  The arrival of a datagram
\* (RxNetRecv), the driver's decision to invoke a callback and the user's
\* stop signal are the environment's, and owed to nobody.
RxNetSteps ==
  \/ RxNetSocket \/ RxNetBind \/ RxNetLoop \/ RxNetRecvShut \/ RxNetLock
  \/ RxNetPush \/ RxNetClose
RxDecSteps ==
  \/ RxDecLoop \/ RxDecLock \/ RxDecPop \/ RxDecDecode \/ RxDecSleep
  \/ RxDecLockPcm \/ RxDecPush
TxNetSteps ==
  \/ TxNetSocket \/ TxNetLoop \/ TxNetLock \/ TxNetPop \/ TxNetSend
  \/ TxNetSleep \/ TxNetClose
CallbackSteps == RxPlayLock \/ RxPlayFill \/ TxCapLock \/ TxCapPush
MainSteps ==
  \/ RxMainCreate \/ RxMainLaunchNet \/ RxMainLaunchDec \/ RxMainPaInit
  \/ RxMainOpen \/ RxMainStart \/ RxMainShutdown \/ RxMainJoinNet
  \/ RxMainJoinDec \/ RxMainStopStream \/ RxMainCloseStream \/ RxMainReturn
  \/ TxMainCreate \/ TxMainLaunchNet \/ TxMainPaInit \/ TxMainOpen
  \/ TxMainStart \/ TxMainStopStream \/ TxMainCloseStream
  \/ TxMainTerminate \/ TxMainJoinNet
  \/ DemoMainCreate \/ DemoMainPaInit \/ DemoMainOpen \/ DemoMainStart
  \/ DemoMainCloseStream \/ DemoMainReturn \/ DemoMainError

\* The liveness runs give the environment fewer events than the safety runs.
LiveArrivals == 1
LivePlaybacks == 1
LiveCaptures == 1
LiveNext ==
  \/ MainSteps \/ RxMainStop \/ TxMainStop \/ DemoMainStopStream
  \/ RxNetSteps \/ RxDecSteps \/ TxNetSteps \/ CallbackSteps
  \/ (n_arrivals < LiveArrivals /\ RxNetRecv)
  \/ (n_playbacks < LivePlaybacks /\ RxPlayInvoke)
  \/ (n_captures < LiveCaptures /\ TxCapInvoke)
  \/ (n_captures < LiveCaptures /\ DemoCallback)

FairSpec ==
  /\ Init /\ [][LiveNext]_vars
  /\ WF_vars(MainSteps)
  /\ WF_vars(RxNetSteps)
  /\ WF_vars(RxDecSteps)
  /\ WF_vars(TxNetSteps)
  /\ WF_vars(CallbackSteps)

\* ================================================================== claims
\* No worker thread is running: each was never launched or has returned.
WorkersDone ==
  /\ net_pc \in {"idle", "done"}
  /\ dec_pc \in {"idle", "done"}
  /\ snd_pc \in {"idle", "done"}

\* The lifecycle controller's STOPPED: main has returned from the stop
\* sequence.
Stopped == main_pc = "exited" /\ g_finished

\* The samples of the frames of a sequence of packets, one after the other.
RECURSIVE ConcatFrames(_)
ConcatFrames(ps) ==
  IF ps = <<>> THEN <<>> ELSE Frame(Head(ps)) \o ConcatFrames(Tail(ps))

\* The ids of a sequence of packets increase strictly.
Increasing(ps) ==
  \A i, j \in 1..Len(ps) : i < j => ps[i].id < ps[j].id

\* The packet queue of the executable that runs.
PacketQueue ==
  IF prog = "sender" THEN g_encoded_packets_queue ELSE g_jitter_buffer

\* C1: whatever the interleaving, each queue holds exactly the items pushed
\* and not yet popped, in the order they were pushed: the packets the
\* consumer took so far followed by the queue's content are the packets the
\* producer pushed, in the order of their receipt (or capture); the samples
\* the playback callback took followed by g_pcm_buffer are the samples the
\* decoder pushed; and the sender hands packets to sendto in the order it
\* popped them.
C1_QueuesAreFifo ==
  /\ pushed = popped \o PacketQueue
  /\ Increasing(pushed)
  /\ pcm_pushed = pcm_popped \o g_pcm_buffer
  /\ pcm_pushed = ConcatFrames(SubSeq(frames_ok, 1, Len(pcm_pushed) \div kFramesPerBuffer))
  /\ prog = "sender" =>
       \/ sent = popped
       \/ /\ snd_pc = "send"
          /\ popped = Append(sent, packet_to_send)

\* Two packets went through the jitter buffer and samples of both frames
\* were played.
C1_Witness ==
  /\ prog = "receiver"
  /\ Len(popped) = 2
  /\ Len(pcm_popped) > kFramesPerBuffer

\* C2: when the playback callback runs its loop for frameCount samples,
\* every output position past the samples the queue held is written with 0;
\* with an empty queue that is every position, and the queue is still empty
\* when the callback returns.
C2_UnderrunIsSilence ==
  [][(pb_pc = "fill" /\ pb_pc' = "idle") =>
       /\ Len(out') = frameCount
       /\ \A i \in 1..frameCount :
            i > Len(g_pcm_buffer) => out'[i] = 0
       /\ (g_pcm_buffer = <<>> => g_pcm_buffer' = <<>>)]_vars

\* A second consecutive callback with nothing decoded returned a whole
\* frame of silence.
C2_Witness ==
  /\ prog = "receiver"
  /\ n_playbacks = 2 /\ pb_pc = "idle"
  /\ pcm_pushed = <<>>
  /\ g_pcm_buffer = <<>>
  /\ out = [i \in 1..kFramesPerBuffer |-> 0]

\* The callback ran short in the middle of a frame: a sample, then silence.
C2_WitnessPartial ==
  /\ pb_pc = "idle" /\ frameCount = kFramesPerBuffer
  /\ out[1] > 0 /\ out[kFramesPerBuffer] = 0

\* The decoder has nothing in hand: its packet, if it took one, has been
\* decoded and its frame pushed.
DecoderDrained ==
  /\ g_jitter_buffer = <<>>
  /\ \/ dec_pc \in {"loop", "lock", "pop", "done"}
     \/ dec_pc = "decode" /\ VecEmpty(encoded_packet)
  /\ net_pc \notin {"lock", "push"}

\* C3: when every packet received was decodable, no playback callback has
\* run and the decoder has drained the jitter buffer, g_pcm_buffer holds the
\* frames of the packets received, in the order of receipt: kFramesPerBuffer
\* samples for each.
C3_DrainedFramesInOrder ==
  (/\ prog = "receiver"
   /\ n_playbacks = 0
   /\ DecoderDrained
   /\ frames_ok = pushed)
  => /\ g_pcm_buffer = ConcatFrames(pushed)
     /\ Len(g_pcm_buffer) = Len(pushed) * kFramesPerBuffer

\* Two decodable packets were received and drained.
C3_Witness ==
  /\ prog = "receiver" /\ n_playbacks = 0 /\ DecoderDrained
  /\ frames_ok = pushed /\ Len(pushed) = 2

\* The network thread's positions in the order it passes them once
\* g_finished is set.
NetRank(pc) ==
  CASE pc = "idle" -> 0 [] pc = "socket" -> 1 [] pc = "bind" -> 2
    [] pc = "recv" -> 3 [] pc = "lock" -> 4 [] pc = "push" -> 5
    [] pc = "loop" -> 6 [] pc = "close" -> 7 [] pc = "done" -> 8

\* C4: once main has set g_finished and called shutdown, a network thread
\* parked in recvfrom finds its socket shut down, and the thread reaches its
\* end; every step it takes from then on moves it forward (it never goes
\* back into recvfrom), so it ends within the length of that path.
C4_RecvIsCancelled ==
  /\ [](main_pc = "join_net" /\ net_pc = "recv" => sock_shut)
  /\ [][main_pc = "join_net" /\ net_pc' # net_pc
          => NetRank(net_pc') > NetRank(net_pc)]_vars
  /\ (main_pc = "join_net" /\ net_pc = "recv") ~> (net_pc = "done")

\* main has called shutdown and waits in join while the network thread is
\* parked in recvfrom, no datagram having arrived in the whole run.
C4_Witness ==
  /\ prog = "receiver" /\ main_pc = "join_net"
  /\ net_pc = "recv" /\ sock_shut /\ n_arrivals = 0

\* C5: once the stop signal is given, main reaches its return with every
\* worker thread finished; main never returns while a worker thread runs,
\* and the process does not fault once the stop signal is given.
C5_StopReachesStopped ==
  /\ [](main_pc = "exited" => WorkersDone)
  /\ [](g_finished => main_pc # "crashed")
  /\ g_finished ~> (Stopped /\ WorkersDone)

\* The receiver stopped although its network thread had returned early.
C5_Witness ==
  /\ prog = "receiver" /\ Stopped /\ exit_code = 0
  /\ "bind" \in init_failed


\* The receiver's socket() or bind() has failed.
TransportFailed == init_failed \cap {"socket", "bind"} # {}

\* C6: once socket() or bind() has failed in the receiver, the decoder
\* thread is not launched, the playback stream is not started and main does
\* not go on to wait for the stop signal (RUNNING).
C6_TransportFailureStopsStartup ==
  [][(prog = "receiver" /\ TransportFailed) =>
       /\ ~(dec_pc = "idle" /\ dec_pc' # "idle")
       /\ ~(stream # "started" /\ stream' = "started")
       /\ ~(main_pc # "wait" /\ main_pc' = "wait")]_vars

\* C7: whichever executable runs, main returns 1 when an initialisation
\* step (codec, audio device, stream open or start, socket, bind) failed,
\* and returns 0 only when none did.
C7_ExitCodeTellsInitFailure ==
  main_pc = "exited" =>
    /\ init_failed # {} => exit_code = 1
    /\ exit_code = 0 => init_failed = {}

\* C8: no callback waits for a mutex that a worker thread holds: neither the
\* playback callback for g_pcm_mutex held by the decoder, nor the capture
\* callback for g_queue_mutex held by the sender's network thread.
C8_CallbacksNeverWait ==
  /\ ~(pb_pc = "lock" /\ g_pcm_mutex = "dec")
  /\ ~(cap_pc = "lock" /\ g_queue_mutex = "net")

\* C9: when the decoder thread has left its loop, g_finished is set and the
\* network thread is past every point from which it can still push a packet
\* into g_jitter_buffer.
C9_DecoderOutlivesProducer ==
  dec_pc = "done" =>
    /\ g_finished
    /\ net_pc \notin {"recv", "lock", "push"}

\* No packet occurs twice in a sequence.
NoDuplicates(ps) ==
  \A i, j \in 1..Len(ps) : ps[i] = ps[j] => i = j

\* C10: no packet is popped twice, and when main has returned from the stop
\* sequence no pushed packet is left in its queue.
C10_ConsumedExactlyOnce ==
  /\ NoDuplicates(popped)
  /\ Stopped => PacketQueue = <<>>


\* The smaller of two numbers.
Min(a, b) == IF a < b THEN a ELSE b

\* C11: a playback callback invocation for frameCount samples removes the
\* first min(frameCount, Len(g_pcm_buffer)) samples of g_pcm_buffer and no
\* others, writes each of them to the output position of its rank, and
\* leaves what was queued behind them in the queue, in order.
C11_PlaybackNeverDiscards ==
  [][(pb_pc = "fill" /\ pb_pc' = "idle") =>
       LET k == Min(frameCount, Len(g_pcm_buffer)) IN
         /\ g_pcm_buffer' = SubSeq(g_pcm_buffer, k + 1, Len(g_pcm_buffer))
         /\ \A i \in 1..k : out'[i] = g_pcm_buffer[i]
         /\ pcm_popped' = pcm_popped \o SubSeq(g_pcm_buffer, 1, k)]_vars

\* The first callback found two frames queued, asked for one, returned the
\* first and left the second queued.
C11_Witness ==
  /\ prog = "receiver"
  /\ n_playbacks = 1 /\ pb_pc = "idle"
  /\ frameCount = kFramesPerBuffer
  /\ out = Frame([id |-> 1, len |-> kPacketBytes])
  /\ pcm_left = kFramesPerBuffer
  /\ g_pcm_buffer = Frame([id |-> 2, len |-> kPacketBytes])


\* A maximum queue depth in samples.  The source has no such parameter; this
\* is one frame less than the samples the receiver can be sent in a run, so
\* that a queue that keeps to any depth below what it was sent keeps to it.
MaxQueueDepth == (MaxArrivals - 1) * kFramesPerBuffer

\* C12: g_pcm_buffer never holds more samples than the maximum queue depth.
C12_SampleQueueIsCapped ==
  Len(g_pcm_buffer) <= MaxQueueDepth


\* C13 has no formula: the stop sequence is the straight-line tail of main
\* (receiver lines 170-189, sender lines 140-148), which runs once and ends
\* in return; no step of any executable invokes it again.

\* C14: g_finished is false at the start; only main's step out of
\* std::cin.get() changes it, from false to true, and main takes that step
\* with the flag false (so once); no step changes it back; and main calls
\* shutdown on the socket, or changes the socket's state in any way, only
\* with g_finished already true.
C14_FlagSetOnceThenShutdown ==
  /\ ~g_finished
  /\ [][g_finished' # g_finished =>
          /\ ~g_finished /\ g_finished'
          /\ main_pc = "wait" /\ main_pc' # "wait"]_vars
  /\ [][(main_pc = "wait" /\ main_pc' # "wait" /\ prog # "demo") =>
          ~g_finished /\ g_finished']_vars
  /\ [][g_finished => g_finished']_vars
  /\ [][(main_pc = "shutdown" /\ main_pc' # "shutdown") => g_finished]_vars
  /\ [][sock_shut' # sock_shut => g_finished /\ main_pc = "shutdown"]_vars

\* main has set g_finished and then shut the bound socket down.
C14_Witness ==
  /\ prog = "receiver" /\ main_pc = "join_net"
  /\ g_finished /\ sock_shut /\ sock = "bound"


\* The decoder finishes the decode step of a packet without a frame.
DecodeFails ==
  /\ dec_pc = "decode" /\ ~VecEmpty(encoded_packet)
  /\ dec_pc' # "decode"
  /\ frames_ok' = frames_ok

\* C15: when SetEncodedPacket refuses a packet or DecodeSamples returns
\* nothing, the packet is gone from g_jitter_buffer, g_pcm_buffer is left as
\* it was, the decoder thread goes back to its loop's test and the process
\* goes on; and whenever g_pcm_buffer grows, it grows by the whole frame of
\* the packet just decoded, kFramesPerBuffer samples appended at its tail.
C15_DecodeFailureSkipsPacket ==
  /\ [][DecodeFails =>
          /\ dec_pc' = "loop"
          /\ main_pc' = main_pc
          /\ g_pcm_buffer' = g_pcm_buffer /\ pcm_pushed' = pcm_pushed
          /\ popped # <<>> /\ popped[Len(popped)] = encoded_packet
          /\ \A i \in 1..Len(g_jitter_buffer') :
               g_jitter_buffer'[i] # encoded_packet]_vars
  /\ [][g_pcm_buffer' # g_pcm_buffer /\ pb_pc # "fill" =>
          /\ frames_ok # <<>>
          /\ frames_ok[Len(frames_ok)] = encoded_packet
          /\ g_pcm_buffer' = g_pcm_buffer \o Frame(encoded_packet)
          /\ Len(g_pcm_buffer') = Len(g_pcm_buffer) + kFramesPerBuffer]_vars
  /\ [](Len(pcm_pushed) % kFramesPerBuffer = 0)

\* The first packet gave no frame and the packet after it was decoded and
\* its frame queued.
C15_Witness ==
  /\ prog = "receiver"
  /\ Len(popped) = 2 /\ frames_ok = <<popped[2]>>
  /\ dec_pc = "loop" /\ n_playbacks = 0
  /\ g_pcm_buffer = Frame(popped[2])


\* C16: in the sender, a capture callback whose Encode gives no packet
\* returns at once with g_encoded_packets_queue as it was; one whose Encode
\* gives a packet takes g_queue_mutex, appends that one packet at the tail
\* of the queue and returns; and every invocation that has returned
\* returned paContinue.
C16_CaptureDropsFailedFrame ==
  /\ [][(prog = "sender" /\ n_captures' # n_captures /\ encoded' = NoPacket) =>
          /\ cap_pc' = "idle"
          /\ g_encoded_packets_queue' = g_encoded_packets_queue
          /\ pushed' = pushed
          /\ cb_result' = "paContinue"]_vars
  /\ [][(prog = "sender" /\ n_captures' # n_captures /\ encoded' # NoPacket) =>
          /\ cap_pc' = "lock"
          /\ g_encoded_packets_queue' = g_encoded_packets_queue]_vars
  /\ [][(cap_pc = "lock" /\ cap_pc' # "lock") =>
          /\ cap_pc' = "push"
          /\ encoded' = encoded
          /\ g_encoded_packets_queue' = g_encoded_packets_queue]_vars
  /\ [][(cap_pc = "push" /\ cap_pc' # "push") =>
          /\ cap_pc' = "idle"
          /\ g_encoded_packets_queue' = Append(g_encoded_packets_queue, encoded)
          /\ cb_result' = "paContinue"]_vars
  /\ []((prog = "sender" /\ cap_pc = "idle" /\ n_captures > 0) =>
          cb_result = "paContinue")

\* The first frame did not encode, and the callback was invoked again and
\* queued the packet of the second.
C16_Witness ==
  /\ prog = "sender" /\ cap_pc = "idle" /\ n_captures = 2
  /\ pushed = <<[id |-> 2, len |-> kPacketBytes]>>
  /\ cb_result = "paContinue"


\* C17: when recvfrom returns n > 0, the network thread goes on to push
\* exactly one packet, the n bytes just received (n <= kRecvBufferSize), at
\* the tail of g_jitter_buffer; when it returns 0 or an error the thread
\* pushes nothing and goes back to the loop's test, which sends it into
\* recvfrom again as long as g_finished is not set.
C17_OnePacketPerReceive ==
  /\ [][(net_pc = "recv" /\ net_pc' # "recv") =>
          IF bytes_received' > 0
          THEN /\ net_pc' = "lock"
               /\ bytes_received' <= kRecvBufferSize
               /\ buffer' = [id |-> n_arrivals', len |-> bytes_received']
               /\ g_jitter_buffer' = g_jitter_buffer
          ELSE /\ net_pc' = "loop"
               /\ g_jitter_buffer' = g_jitter_buffer
               /\ pushed' = pushed]_vars
  /\ [][(net_pc = "lock" /\ net_pc' # "lock") =>
          /\ net_pc' = "push"
          /\ buffer' = buffer
          /\ g_jitter_buffer' = g_jitter_buffer]_vars
  /\ [][(net_pc = "push" /\ net_pc' # "push") =>
          /\ net_pc' = "loop"
          /\ buffer.len = bytes_received /\ bytes_received > 0
          /\ g_jitter_buffer' = Append(g_jitter_buffer, buffer)]_vars
  /\ [][(net_pc = "loop" /\ net_pc' # "loop") =>
          net_pc' = IF g_finished THEN "close" ELSE "recv"]_vars
  /\ [][(prog = "receiver" /\ Len(g_jitter_buffer') > Len(g_jitter_buffer)) =>
          net_pc = "push"]_vars
  /\ [](prog = "receiver" => Len(pushed) <= n_arrivals)

\* A receive that failed or was empty was followed by one that returned a
\* full buffer, which was pushed as one packet of that length.
C17_Witness ==
  /\ prog = "receiver" /\ ~g_finished
  /\ n_arrivals = 2 /\ net_pc = "loop"
  /\ bytes_received = kRecvBufferSize
  /\ pushed = <<[id |-> 2, len |-> kRecvBufferSize]>>


\* C18: when the receiver's network thread has returned, the socket it
\* created, if it created one, is closed; and when main has returned, so is
\* every socket created in the run, and the audio stream, if it was opened,
\* is closed.
C18_ResourcesReleased ==
  /\ net_pc = "done" => sock \in {"none", "closed"}
  /\ main_pc = "exited" =>
       /\ sock \in {"none", "closed"}
       /\ snd_sock \in {"none", "closed"}
       /\ stream \in {"none", "garbage", "closed"}


\* Every playback callback so far was asked for a whole frame.
WholeFrameRequests == requests \subseteq {kFramesPerBuffer}

\* n samples of silence.
Silence(n) == [i \in 1..n |-> 0]

\* C19: as long as every playback callback asks for kFramesPerBuffer
\* samples, g_pcm_buffer holds a whole number of frames whenever g_pcm_mutex
\* is free, and what a callback has output is one whole decoded frame or
\* kFramesPerBuffer zeros, never the start of a frame followed by zeros.
C19_FramesStayAligned ==
  (prog = "receiver" /\ WholeFrameRequests) =>
    /\ g_pcm_mutex = "free" => Len(g_pcm_buffer) % kFramesPerBuffer = 0
    /\ (pb_pc = "idle" /\ n_playbacks > 0) =>
         \/ out = Silence(kFramesPerBuffer)
         \/ \E k \in 1..Len(frames_ok) : out = Frame(frames_ok[k])

\* After a callback that found nothing and played silence, a second one
\* played the whole frame of the first packet while the frame of the second
\* waited in the queue, the mutex free.
C19_Witness ==
  /\ prog = "receiver" /\ WholeFrameRequests
  /\ n_playbacks = 2 /\ pb_pc = "idle" /\ g_pcm_mutex = "free"
  /\ pcm_popped = Frame([id |-> 1, len |-> kPacketBytes])
  /\ out = pcm_popped
  /\ g_pcm_buffer = Frame([id |-> 2, len |-> kPacketBytes])


\* C20: main never calls shutdown on g_socket_handle once the network
\* thread has closed that descriptor, and the descriptor is closed at most
\* once.
C20_NoShutdownAfterClose ==
  /\ [][(prog = "receiver" /\ main_pc = "shutdown" /\ main_pc' # "shutdown") =>
          ~(g_socket_handle >= 0 /\ sock = "closed")]_vars
  /\ [][(net_pc = "close" /\ net_pc' # "close") => sock # "closed"]_vars
  /\ [][sock = "closed" => sock' = "closed"]_vars
  /\ [](~late_shutdown)

====
